---- MODULE Spec2Model ----
(***************************************************************************)
(* A model of capsule_network.py: the axis softmax, CapsuleLayer (squash,  *)
(* forward in routing mode and in convolutional mode), CapsuleNet.forward  *)
(* and CapsuleLoss.forward.                                                *)
(*                                                                         *)
(* Numbers are exact rationals <<n, d>> (d > 0, lowest terms); the result  *)
(* of 0/0 is the value NaN, which every operation propagates as IEEE       *)
(* arithmetic does.  Tensors are records [shape, data] with the data in    *)
(* row-major order.  exp is the one function that has no rational value:   *)
(* it is replaced by the positive, monotone step function 2^floor(x).      *)
(***************************************************************************)
EXTENDS Integers, Sequences, FiniteSets, TLC

\* ------------------------------------------------------------- numbers

RECURSIVE GCD(_, _)
GCD(a, b) == IF b = 0 THEN a ELSE GCD(b, a % b)

Abs(a) == IF a < 0 THEN -a ELSE a

NaN == <<0, 0>>

IsNaN(q) == q[2] = 0

\* the rational n/d in lowest terms; 0/0 is NaN
Q(n, d) ==
    IF d = 0 THEN NaN
    ELSE LET g == GCD(Abs(n), Abs(d))
             s == IF d < 0 THEN -1 ELSE 1
         IN  <<(s * n) \div g, (s * d) \div g>>

QInt(n) == <<n, 1>>

\* sums over the least common denominator
QAdd(p, q) == IF IsNaN(p) \/ IsNaN(q) THEN NaN
              ELSE LET g == GCD(p[2], q[2])
                   IN  Q(p[1] * (q[2] \div g) + q[1] * (p[2] \div g),
                         (p[2] \div g) * q[2])

QNeg(p) == <<-p[1], p[2]>>

QSub(p, q) == QAdd(p, QNeg(q))

\* products, cancelling across before multiplying
QMul(p, q) == IF IsNaN(p) \/ IsNaN(q) THEN NaN
              ELSE LET g1 == GCD(Abs(p[1]), q[2])
                       g2 == GCD(Abs(q[1]), p[2])
                   IN  Q((p[1] \div g1) * (q[1] \div g2),
                         (p[2] \div g2) * (q[2] \div g1))

\* the only division by zero the program can make is 0/0 (squash of a zero
\* vector), which is NaN
QDiv(p, q) == IF IsNaN(p) \/ IsNaN(q) THEN NaN
              ELSE IF q[1] = 0 THEN NaN
              ELSE IF q[1] < 0 THEN QMul(p, <<-q[2], -q[1]>>)
              ELSE QMul(p, <<q[2], q[1]>>)

\* comparisons with NaN are false
QLess(p, q) == ~IsNaN(p) /\ ~IsNaN(q) /\ p[1] * q[2] < q[1] * p[2]

QLeq(p, q) == ~IsNaN(p) /\ ~IsNaN(q) /\ p[1] * q[2] <= q[1] * p[2]

QMax(p, q) == IF QLess(p, q) THEN q ELSE p

\* the integer square root of a perfect square
ISqrt(n) == CHOOSE r \in 0..n : r * r = n

\* torch.sqrt, exact: the model only takes roots of squares of rationals
QSqrt(q) == IF IsNaN(q) THEN NaN ELSE <<ISqrt(q[1]), ISqrt(q[2])>>

Floor(q) == q[1] \div q[2]

RECURSIVE Pow2(_)
Pow2(k) == IF k = 0 THEN 1 ELSE 2 * Pow2(k - 1)

\* exp, replaced by 2^floor(x): positive, monotone, Exp(0) = 1
QExp(q) == IF IsNaN(q) THEN NaN
           ELSE LET k == Floor(q)
                IN  IF k >= 0 THEN <<Pow2(k), 1>> ELSE <<1, Pow2(-k)>>

RECURSIVE QSum(_)
QSum(s) == IF s = <<>> THEN QInt(0) ELSE QAdd(s[1], QSum(Tail(s)))

RECURSIVE QMaxOf(_)
QMaxOf(s) == IF Len(s) = 1 THEN s[1] ELSE QMax(s[1], QMaxOf(Tail(s)))

\* ------------------------------------------------------------- tensors

RECURSIVE SeqProd(_)
SeqProd(s) == IF s = <<>> THEN 1 ELSE s[1] * SeqProd(Tail(s))

\* the number of elements after position j of a row-major shape
Stride(shape, j) == SeqProd(SubSeq(shape, j + 1, Len(shape)))

\* the multi-index (0-based) of the k-th element (0-based) in row-major order
Unravel(k, shape) == [j \in 1..Len(shape) |-> (k \div Stride(shape, j)) % shape[j]]

RECURSIVE RavelFrom(_, _, _)
RavelFrom(idx, shape, j) ==
    IF j > Len(shape) THEN 0
    ELSE idx[j] * Stride(shape, j) + RavelFrom(idx, shape, j + 1)

Ravel(idx, shape) == RavelFrom(idx, shape, 1)

Tensor(shape, F(_)) ==
    [shape |-> shape, data |-> [k \in 1..SeqProd(shape) |-> F(Unravel(k - 1, shape))]]

At(t, idx) == t.data[Ravel(idx, t.shape) + 1]

\* a negative dim counts from the end
NormDim(dim, rank) == IF dim < 0 THEN dim + rank ELSE dim

SwapAt(s, a, b) ==
    [j \in 1..Len(s) |-> IF j = a THEN s[b] ELSE IF j = b THEN s[a] ELSE s[j]]

\* Tensor.transpose(dim0, dim1)
transpose(t, dim0, dim1) ==
    LET a == NormDim(dim0, Len(t.shape)) + 1
        b == NormDim(dim1, Len(t.shape)) + 1
    IN  Tensor(SwapAt(t.shape, a, b), LAMBDA idx : At(t, SwapAt(idx, a, b)))

\* Tensor.contiguous().view(*shape): the same elements in row-major order
view(t, shape) == [shape |-> shape, data |-> t.data]

\* the shape two operands broadcast to, aligned at the trailing dimension;
\* ShapeError when a pair of sizes differs and neither is 1
ShapeError == <<-1>>

IsShapeError(s) == s = ShapeError

DimAt(s, j, rank) == IF j > rank - Len(s) THEN s[j - (rank - Len(s))] ELSE 1

\* broadcasting without the size check
BroadcastShapeUnchecked(s1, s2) ==
    IF IsShapeError(s1) \/ IsShapeError(s2) THEN ShapeError
    ELSE LET rank == IF Len(s1) > Len(s2) THEN Len(s1) ELSE Len(s2)
         IN  [j \in 1..rank |->
                 IF DimAt(s1, j, rank) = 1 THEN DimAt(s2, j, rank)
                 ELSE DimAt(s1, j, rank)]

BroadcastShape(s1, s2) ==
    IF IsShapeError(s1) \/ IsShapeError(s2) THEN ShapeError
    ELSE LET rank == IF Len(s1) > Len(s2) THEN Len(s1) ELSE Len(s2)
             ok == \A j \in 1..rank :
                       \/ DimAt(s1, j, rank) = DimAt(s2, j, rank)
                       \/ DimAt(s1, j, rank) = 1
                       \/ DimAt(s2, j, rank) = 1
         IN  IF ok
             THEN [j \in 1..rank |->
                      IF DimAt(s1, j, rank) = 1 THEN DimAt(s2, j, rank)
                      ELSE DimAt(s1, j, rank)]
             ELSE ShapeError

\* the index into an operand of shape s of the element that a broadcast
\* result's index idx reads
BroadcastIndex(idx, s) ==
    [j \in 1..Len(s) |->
        IF s[j] = 1 THEN 0 ELSE idx[j + (Len(idx) - Len(s))]]

\* an elementwise binary operation with broadcasting
Elementwise(t1, t2, Op(_, _)) ==
    Tensor(BroadcastShape(t1.shape, t2.shape),
           LAMBDA idx : Op(At(t1, BroadcastIndex(idx, t1.shape)),
                           At(t2, BroadcastIndex(idx, t2.shape))))

\* the elements along dimension d (1-based position) through index idx
Slice(t, idx, d) == [k \in 1..t.shape[d] |-> At(t, [idx EXCEPT ![d] = k - 1])]

SumShape(shape, dim, keepdim) ==
    LET d == NormDim(dim, Len(shape)) + 1
    IN  IF keepdim THEN [shape EXCEPT ![d] = 1]
        ELSE SubSeq(shape, 1, d - 1) \o SubSeq(shape, d + 1, Len(shape))

\* Tensor.sum(dim, keepdim)
sum(t, dim, keepdim) ==
    LET d == NormDim(dim, Len(t.shape)) + 1
        full(idx) == IF keepdim THEN idx
                     ELSE SubSeq(idx, 1, d - 1) \o <<0>> \o SubSeq(idx, d, Len(idx))
    IN  Tensor(SumShape(t.shape, dim, keepdim),
               LAMBDA idx : QSum(Slice(t, full(idx), d)))

\* the dimension F.softmax normalises when none is given
ImplicitSoftmaxDim(rank) == IF rank \in {0, 1, 3} THEN 0 ELSE 1

\* F.softmax(input): exp(x - max) / sum exp(x - max) along the implicit dim
F_softmax(t) ==
    LET d == ImplicitSoftmaxDim(Len(t.shape)) + 1
        w(idx) == LET row == Slice(t, idx, d)
                      mx == QMaxOf(row)
                  IN  [k \in 1..Len(row) |-> QExp(QSub(row[k], mx))]
    IN  Tensor(t.shape, LAMBDA idx : QDiv(w(idx)[idx[d] + 1], QSum(w(idx))))

\* Tensor elementwise function
Map(t, F(_)) == [shape |-> t.shape, data |-> [k \in 1..Len(t.data) |-> F(t.data[k])]]

\* ------------------------------------------------------------- softmax

\* softmax(input, dim): softmax along an arbitrary axis
softmax(input, dim) ==
    LET input_size == input.shape
        last == Len(input_size) - 1
        trans_input == transpose(input, dim, last)
        trans_size == trans_input.shape
        cols == trans_size[Len(trans_size)]
        input_2d == view(trans_input, <<SeqProd(trans_size) \div cols, cols>>)
        soft_max_2d == F_softmax(input_2d)
        soft_max_nd == view(soft_max_2d, trans_size)
    IN  transpose(soft_max_nd, dim, last)

\* ------------------------------------------------------------- CapsuleLayer

\* CapsuleLayer.squash(tensor, dim)
squash(tensor, dim) ==
    LET squared_norm == sum(Map(tensor, LAMBDA q : QMul(q, q)), dim, TRUE)
        scale == Elementwise(squared_norm,
                             Map(squared_norm, LAMBDA q : QAdd(QInt(1), q)), QDiv)
    IN  Elementwise(Elementwise(scale, tensor, QMul),
                    Map(squared_norm, QSqrt), QDiv)

\* t[None] / t[:, None] / ...: a dimension of size 1 inserted at position pos
unsqueeze(t, pos) ==
    view(t, SubSeq(t.shape, 1, pos) \o <<1>> \o SubSeq(t.shape, pos + 1, Len(t.shape)))

\* the shape of a @ b for operands of rank >= 2: the batch dimensions
\* broadcast, the inner sizes must agree
MatmulShape(s1, s2) ==
    IF IsShapeError(s1) \/ IsShapeError(s2) THEN ShapeError
    ELSE LET r1 == Len(s1)
             r2 == Len(s2)
             batch == BroadcastShape(SubSeq(s1, 1, r1 - 2), SubSeq(s2, 1, r2 - 2))
         IN  IF s1[r1] # s2[r2 - 1] \/ IsShapeError(batch) THEN ShapeError
             ELSE batch \o <<s1[r1 - 1], s2[r2]>>

\* a @ b (torch.matmul)
matmul(a, b) ==
    LET r1 == Len(a.shape)
        r2 == Len(b.shape)
        shape == MatmulShape(a.shape, b.shape)
        r == Len(shape)
        batchOf(idx) == SubSeq(idx, 1, r - 2)
        elem(idx) ==
            QSum([k \in 1..a.shape[r1] |->
                QMul(At(a, BroadcastIndex(batchOf(idx), SubSeq(a.shape, 1, r1 - 2))
                           \o <<idx[r - 1], k - 1>>),
                     At(b, BroadcastIndex(batchOf(idx), SubSeq(b.shape, 1, r2 - 2))
                           \o <<k - 1, idx[r]>>))])
    IN  Tensor(shape, elem)

\* priors = x[None, :, :, None, :] @ self.route_weights[:, None, :, :, :]
Priors(x, route_weights) ==
    matmul(unsqueeze(unsqueeze(x, 0), 3), unsqueeze(route_weights, 1))

\* probs = softmax(logits, dim=2)
Probs(logits) == softmax(logits, 2)

\* outputs = self.squash((probs * priors).sum(dim=2, keepdim=True))
Outputs(probs, priors) == squash(sum(Elementwise(probs, priors, QMul), 2, TRUE), -1)

\* delta_logits = (priors * outputs).sum(dim=-1, keepdim=True)
DeltaLogits(priors, outputs) == sum(Elementwise(priors, outputs, QMul), -1, TRUE)

\* the loop body with logits = delta_logits in place of logits + delta_logits
LogitsOverwritten(logits, priors, outputs, i, num_iterations) ==
    IF i # num_iterations - 1 THEN DeltaLogits(priors, outputs) ELSE logits

\* logits after one pass of the loop body, i the loop index
LogitsAfterIteration(logits, priors, outputs, i, num_iterations) ==
    IF i # num_iterations - 1
    THEN Elementwise(logits, DeltaLogits(priors, outputs), QAdd)
    ELSE logits

\* the loop body with logits += delta_logits, which writes the stored tensor
StoredLogitsInPlace(route_logits, new_logits) == new_logits

\* self.route_logits after one pass of the loop body: line 61 binds the local
\* name logits to a new tensor, the stored parameter is not written
StoredLogitsAfterIteration(route_logits, new_logits) == route_logits

\* ------------------------------------------------------------- shapes

\* nn.Conv2d(in_channels, out_channels, kernel_size, stride, padding=0) on a
\* [batch, channels, height, width] input
Conv2dShape(s, layer) ==
    IF IsShapeError(s) \/ Len(s) # 4 THEN ShapeError
    ELSE IF s[2] # layer.in_channels THEN ShapeError
    ELSE IF s[3] < layer.kernel_size \/ s[4] < layer.kernel_size THEN ShapeError
    ELSE <<s[1], layer.out_channels,
           (s[3] - layer.kernel_size) \div layer.stride + 1,
           (s[4] - layer.kernel_size) \div layer.stride + 1>>

\* Tensor.view(a, -1, c): the -1 is inferred, the element count must divide
ViewInferShape(s, a, c) ==
    IF IsShapeError(s) THEN ShapeError
    ELSE IF a * c = 0 \/ SeqProd(s) % (a * c) # 0 THEN ShapeError
    ELSE <<a, SeqProd(s) \div (a * c), c>>

\* torch.cat of count tensors of shape s along dim=-1
CatLastShape(s, count) ==
    IF IsShapeError(s) THEN ShapeError
    ELSE [s EXCEPT ![Len(s)] = s[Len(s)] * count]

\* CapsuleLayer.forward with num_route_nodes = -1, lines 63-65
ConvForwardShape(xs, layer) ==
    LET capsule == ViewInferShape(Conv2dShape(xs, layer), xs[1], 1)
    IN  CatLastShape(capsule, layer.num_capsules)

UnsqueezeShape(s, pos) ==
    IF IsShapeError(s) THEN ShapeError
    ELSE SubSeq(s, 1, pos) \o <<1>> \o SubSeq(s, pos + 1, Len(s))

SumShapeChecked(s, dim, keepdim) ==
    IF IsShapeError(s) THEN ShapeError ELSE SumShape(s, dim, keepdim)

\* the shape of outputs after the loop, lines 55-61, from pass i on
RECURSIVE RoutingLoopShape(_, _, _, _)
RoutingLoopShape(logits, priors, i, num_iterations) ==
    LET probs == logits
        outputs == SumShapeChecked(BroadcastShape(probs, priors), 2, TRUE)
        delta_logits == SumShapeChecked(BroadcastShape(priors, outputs), -1, TRUE)
    IN  IF i = num_iterations - 1 THEN outputs
        ELSE RoutingLoopShape(BroadcastShape(logits, delta_logits), priors,
                              i + 1, num_iterations)

\* CapsuleLayer.forward with num_route_nodes # -1, lines 52-61 and 67
RoutingForwardShape(xs, layer) ==
    LET weights == <<layer.num_capsules, layer.num_route_nodes,
                     layer.in_channels, layer.out_channels>>
        stored == <<layer.num_capsules, 1, layer.num_route_nodes, 1, 1>>
        priors == MatmulShape(UnsqueezeShape(UnsqueezeShape(xs, 0), 3),
                              UnsqueezeShape(weights, 1))
    IN  RoutingLoopShape(stored, priors, 0, layer.num_iterations)

\* Tensor.squeeze(): every dimension of size 1 is dropped
SqueezeShape(s) == SelectSeq(s, LAMBDA d : d # 1)

squeeze(t) == view(t, SqueezeShape(t.shape))

\* nn.Linear(in, out) on the last dimension
LinearShape(s, linear) ==
    IF IsShapeError(s) \/ Len(s) = 0 THEN ShapeError
    ELSE IF s[Len(s)] # linear.in_features THEN ShapeError
    ELSE [s EXCEPT ![Len(s)] = linear.out_features]

RECURSIVE SequentialShape(_, _)
SequentialShape(s, layers) ==
    IF layers = <<>> THEN s
    ELSE SequentialShape(LinearShape(s, layers[1]), Tail(layers))

\* ------------------------------------------------------------- CapsuleNet

\* CapsuleNet.__init__
conv1 == [in_channels |-> 1, out_channels |-> 256, kernel_size |-> 9, stride |-> 1]

primary_capsules ==
    [num_capsules |-> 8, num_route_nodes |-> -1, in_channels |-> 256,
     out_channels |-> 32, kernel_size |-> 9, stride |-> 2]

digit_capsules ==
    [num_capsules |-> 10, num_route_nodes |-> 32 * 6 * 6, in_channels |-> 8,
     out_channels |-> 16, num_iterations |-> 3]

decoder ==
    << [in_features |-> 16, out_features |-> 512],
       [in_features |-> 512, out_features |-> 1024],
       [in_features |-> 1024, out_features |-> 784] >>

\* the digit capsule vectors of a call: the value of the routing layer on
\* weights and images the model does not hold.  Batch element b has one most
\* active capsule, of length 3/4, the others have length 1/3; the seed decides
\* which.  Every vector lies along the first coordinate.
MostActive(seed, b) == (seed * (b + 1) + b) % digit_capsules.num_capsules

DigitCapsuleValues(seed, shape) ==
    Tensor(shape,
           LAMBDA idx : IF idx[Len(idx)] # 0 THEN QInt(0)
                        ELSE IF idx[1] = MostActive(seed, idx[2]) THEN Q(3, 4)
                        ELSE Q(-1, 3))

\* the positions of the largest entry of sequence row
ArgMax(row) == CHOOSE k \in 1..Len(row) :
                  /\ \A j \in 1..Len(row) : QLeq(row[j], row[k])
                  /\ \A j \in 1..(k - 1) : QLess(row[j], row[k])

\* _, max_length_indices = classes.max(dim=1) on a [batch, classes] tensor
MaxIndices(classes) ==
    [b \in 1..classes.shape[1] |-> ArgMax(Slice(classes, <<b - 1, 0>>, 2)) - 1]

\* the decoder input gathered with each element's own index
DecoderInputPerElement(xv, max_length_indices) ==
    Tensor(<<xv.shape[1], xv.shape[3]>>,
           LAMBDA idx : At(xv, <<idx[1], max_length_indices[idx[1] + 1], idx[2]>>))

\* x[:, max_length_indices.data[0], :]
DecoderInput(xv, max_length_indices) ==
    Tensor(<<xv.shape[1], xv.shape[3]>>,
           LAMBDA idx : At(xv, <<idx[1], max_length_indices[1], idx[2]>>))

NetError(where, primary) ==
    [error |-> where, primary |-> primary, x |-> <<>>, classes |-> <<>>,
     max_length_indices |-> <<>>, decoder_input |-> <<>>, reconstructions |-> <<>>]

\* CapsuleNet.forward on an image batch of the given shape; seed decides the
\* digit capsule values
CapsuleNetForward(images, seed) ==
    LET feature == Conv2dShape(images, conv1)
        primary == ConvForwardShape(feature, primary_capsules)
        digit == RoutingForwardShape(primary, digit_capsules)
    IN  IF IsShapeError(feature) THEN NetError("conv1", ShapeError)
        ELSE IF IsShapeError(primary) THEN NetError("primary_capsules", ShapeError)
        ELSE IF IsShapeError(digit) THEN NetError("digit_capsules", primary)
        ELSE
        LET caps == DigitCapsuleValues(seed, digit)
            squeezed == squeeze(caps)
        IN  IF Len(squeezed.shape) < 2 THEN NetError("transpose", primary)
            ELSE
            LET xv == transpose(squeezed, 0, 1)
                norms == Map(sum(Map(xv, LAMBDA q : QMul(q, q)), -1, FALSE), QSqrt)
                classes == F_softmax(norms)
            IN  IF Len(classes.shape) < 2 THEN NetError("max", primary)
                ELSE IF Len(xv.shape) # 3 THEN NetError("index", primary)
                ELSE
                LET max_length_indices == MaxIndices(classes)
                    decoder_input == DecoderInput(xv, max_length_indices)
                    reconstructions == SequentialShape(decoder_input.shape, decoder)
                IN  IF IsShapeError(reconstructions) THEN NetError("decoder", primary)
                    ELSE [error |-> "", primary |-> primary, x |-> xv,
                          classes |-> classes,
                          max_length_indices |-> max_length_indices,
                          decoder_input |-> decoder_input,
                          reconstructions |-> reconstructions]

\* ------------------------------------------------------------- CapsuleLoss

\* torch.clamp(t, min=0)
ClampMin0(t) == Map(t, LAMBDA q : QMax(q, QInt(0)))

Scalar(q) == [shape |-> <<1>>, data |-> <<q>>]

\* left with the margin at 1 in place of 0.9
LeftMarginOne(classes) ==
    Map(ClampMin0(Elementwise(Scalar(QInt(1)), classes, QSub)), LAMBDA q : QMul(q, q))

\* left = torch.clamp(0.9 - classes, min=0) ** 2
Left(classes) ==
    Map(ClampMin0(Elementwise(Scalar(Q(9, 10)), classes, QSub)), LAMBDA q : QMul(q, q))

\* right = torch.clamp(classes - 0.1, min=0) ** 2
Right(classes) ==
    Map(ClampMin0(Elementwise(classes, Scalar(Q(1, 10)), QSub)), LAMBDA q : QMul(q, q))

\* margin_loss = labels * left + 0.5 * (1 - labels) * right, per class
MarginTerms(labels, classes) ==
    Elementwise(
        Elementwise(labels, Left(classes), QMul),
        Elementwise(Elementwise(Scalar(Q(1, 2)),
                                Elementwise(Scalar(QInt(1)), labels, QSub), QMul),
                    Right(classes), QMul),
        QAdd)

\* Tensor.mean() over every element
Mean(t) == QDiv(QSum(t.data), QInt(Len(t.data)))

\* nn.MSELoss(size_average=True): the mean of the squared differences of the
\* elements taken in order
MSELoss(input, target) ==
    Mean([shape |-> <<Len(input.data)>>,
          data |-> [k \in 1..Len(input.data) |->
                      LET d == QSub(input.data[k], target.data[k]) IN QMul(d, d)]])

\* CapsuleLoss.forward
CapsuleLossForward(images, labels, classes, reconstructions) ==
    LET terms == MarginTerms(labels, classes)
        margin_loss == Mean(sum(terms, 1, FALSE))
        reconstruction_loss == MSELoss(reconstructions, images)
    IN  [terms |-> terms, margin_loss |-> margin_loss,
         loss |-> QAdd(margin_loss, QMul(Q(5, 10000), reconstruction_loss))]

\* ------------------------------------------------------------- state

VARIABLES
    num_route_nodes,  \* CapsuleLayer.num_route_nodes of the routing layer
    num_iterations,   \* CapsuleLayer.num_iterations
    route_logits,     \* the nn.Parameter route_logits
    route_weights,    \* the nn.Parameter route_weights
    pc,               \* "idle", or "loop" inside a forward call
    x,                \* the caller's input batch of the current or last call
    priors,           \* locals of forward
    logits,
    i,
    probs,
    outputs,
    ret,              \* the value the last forward call returned
    n_updates,        \* how often the running call has updated logits
    sq_in,            \* the tensor squash was last called with
    sq_out,           \* what it returned
    net_call,         \* the arguments of the last CapsuleNet.forward call
    net_result,       \* what it returned, or where it failed
    loss_call,        \* the arguments of the last CapsuleLoss.forward call
    loss_result       \* what it returned

layerVars == <<num_route_nodes, num_iterations, route_logits, route_weights, pc, x,
               priors, logits, i, probs, outputs, ret, n_updates>>

squashVars == <<sq_in, sq_out>>

netVars == <<net_call, net_result>>

lossVars == <<loss_call, loss_result>>

vars == <<layerVars, squashVars, netVars, lossVars>>

NoCall == [called |-> FALSE]

NoTensor == [shape |-> <<0>>, data |-> <<>>]

\* ------------------------------------------------------------- bounds

NumCapsules == 2
InChannels == 2
OutChannels == 2
MaxRouteNodes == 2
MaxIterations == 3
MaxBatch == 2
MaxSeed == 1
MaxDim == 3
MaxCoord == 4
MinSide == 16
MaxSide == 30
GridSteps == 20
ImageSide == 2

\* the k-th number drawn with a seed; seed 0 draws zeros
Gen(seed, k) == IF seed = 0 THEN 0 ELSE ((seed * k + seed) % 3) - 1

\* an input batch [batch, num_route_nodes, in_channels]
InputTensor(seed, batch, n) ==
    Tensor(<<batch, n, InChannels>>,
           LAMBDA idx : QInt(Gen(seed, Ravel(idx, <<batch, n, InChannels>>))))

\* torch.randn(num_capsules, num_route_nodes, in_channels, out_channels), and
\* what an optimizer step may leave there.  The weights drawn map into the
\* first output channel, so every vote's norm is rational.
WeightTensor(seed, n) ==
    Tensor(<<NumCapsules, n, InChannels, OutChannels>>,
           LAMBDA idx : IF idx[4] = 0
                        THEN QInt(Gen(seed, Ravel(SubSeq(idx, 1, 3),
                                                  <<NumCapsules, n, InChannels>>)))
                        ELSE QInt(0))

\* torch.zeros(num_capsules, 1, num_route_nodes, 1, 1) for seed 0, and what
\* an optimizer step may leave there
LogitTensor(seed, n) ==
    Tensor(<<NumCapsules, 1, n, 1, 1>>,
           LAMBDA idx : QInt(Gen(seed, Ravel(idx, <<NumCapsules, 1, n, 1, 1>>))))

\* ------------------------------------------------------------- routing layer

InitSquashIdle == sq_in = NoTensor /\ sq_out = NoTensor

InitNetIdle == net_call = NoCall /\ net_result = NoCall

InitLossIdle == loss_call = NoCall /\ loss_result = NoCall

\* CapsuleLayer.__init__ with num_route_nodes # -1
Init ==
    /\ num_route_nodes \in 1..MaxRouteNodes
    /\ num_iterations \in 1..MaxIterations
    /\ route_logits = LogitTensor(0, num_route_nodes)
    /\ route_weights \in { WeightTensor(s, num_route_nodes) : s \in 0..MaxSeed }
    /\ pc = "idle"
    /\ x = NoTensor /\ priors = NoTensor /\ logits = NoTensor
    /\ probs = NoTensor /\ outputs = NoTensor /\ ret = NoTensor
    /\ i = 0 /\ n_updates = 0
    /\ InitSquashIdle /\ InitNetIdle /\ InitLossIdle

\* optimizer.step() between two forward calls: Adam writes every tensor that
\* model.parameters() yields, route_logits among them
OptimizerStep ==
    /\ pc = "idle"
    /\ \E ws \in 0..MaxSeed, ls \in 0..MaxSeed :
          /\ route_weights' = WeightTensor(ws, num_route_nodes)
          /\ route_logits' = LogitTensor(ls, num_route_nodes)
    /\ ret' = NoTensor
    /\ UNCHANGED <<num_route_nodes, num_iterations, pc, x, priors, logits, i, probs,
                   outputs, n_updates, squashVars, netVars, lossVars>>

\* forward, lines 51-54: the votes, and the local name logits bound to the
\* stored parameter
ForwardBegin ==
    /\ pc = "idle"
    /\ \E seed \in 0..MaxSeed, batch \in 1..MaxBatch :
          x' = InputTensor(seed, batch, num_route_nodes)
    /\ priors' = Priors(x', route_weights)
    /\ logits' = route_logits
    /\ i' = 0
    /\ n_updates' = 0
    /\ probs' = NoTensor /\ outputs' = NoTensor /\ ret' = NoTensor
    /\ pc' = "loop"
    /\ UNCHANGED <<num_route_nodes, num_iterations, route_logits, route_weights,
                   squashVars, netVars, lossVars>>

\* forward, lines 55-61: one pass of the loop body
RoutingIteration ==
    /\ pc = "loop"
    /\ i < num_iterations
    /\ probs' = Probs(logits)
    /\ outputs' = Outputs(probs', priors)
    /\ logits' = LogitsAfterIteration(logits, priors, outputs', i, num_iterations)
    /\ route_logits' = StoredLogitsAfterIteration(route_logits, logits')
    /\ n_updates' = IF i # num_iterations - 1 THEN n_updates + 1 ELSE n_updates
    /\ i' = i + 1
    /\ UNCHANGED <<num_route_nodes, num_iterations, route_weights, pc, x, priors, ret,
                   squashVars, netVars, lossVars>>

\* forward, line 67: the loop is over, outputs is returned and the locals die
ForwardReturn ==
    /\ pc = "loop"
    /\ i = num_iterations
    /\ ret' = outputs
    /\ pc' = "idle"
    /\ priors' = NoTensor /\ logits' = NoTensor
    /\ probs' = NoTensor /\ outputs' = NoTensor
    /\ i' = 0 /\ n_updates' = 0
    /\ UNCHANGED <<num_route_nodes, num_iterations, route_logits, route_weights, x,
                   squashVars, netVars, lossVars>>

Next == OptimizerStep \/ ForwardBegin \/ RoutingIteration \/ ForwardReturn

Spec == Init /\ [][Next]_vars

\* ------------------------------------------------------------- routing claims

Capsules == 0..(NumCapsules - 1)

RouteNodes == 0..(num_route_nodes - 1)

BatchOf(t) == 0..(t.shape[2] - 1)

\* the logit or coefficient of (output capsule m, batch element b, node n) in
\* a tensor of shape [M, 1, N, 1, 1] or [M, batch, N, 1, 1]
RouteAt(t, m, b, n) == At(t, <<m, IF t.shape[2] = 1 THEN 0 ELSE b, n, 0, 0>>)

InCall == pc = "loop"

AtCallStart == pc = "loop" /\ i = 0

\* C1: at the start of every forward call the routing logits are all zero,
\* whatever calls and optimizer steps came before.
C1_LogitsZeroAtCallStart ==
    AtCallStart => \A k \in 1..Len(logits.data) : logits.data[k] = QInt(0)

\* C4 as stated, for layers with at least two route nodes: in every iteration
\* the coupling coefficients of each (output capsule, batch element) sum to 1
\* over the route nodes and each lies strictly between 0 and 1.
C4_CouplingNormalised ==
    (InCall /\ probs # NoTensor /\ num_route_nodes >= 2) =>
        \A m \in Capsules, b \in BatchOf(probs) :
            /\ QSum([n \in 1..num_route_nodes |-> RouteAt(probs, m, b, n - 1)]) = QInt(1)
            /\ \A n \in RouteNodes :
                  /\ QLess(QInt(0), RouteAt(probs, m, b, n))
                  /\ QLess(RouteAt(probs, m, b, n), QInt(1))

\* C4 for every layer, the one-node layer included
C4_CouplingNormalisedAnyLayer ==
    (InCall /\ probs # NoTensor) =>
        \A m \in Capsules, b \in BatchOf(probs) :
            /\ QSum([n \in 1..num_route_nodes |-> RouteAt(probs, m, b, n - 1)]) = QInt(1)
            /\ \A n \in RouteNodes :
                  /\ QLess(QInt(0), RouteAt(probs, m, b, n))
                  /\ QLess(RouteAt(probs, m, b, n), QInt(1))

\* where the coefficients are numbers they are normalised along the route
\* nodes, and only a one-node layer has a coefficient of 1
CouplingNormalisedWhereDefined ==
    (InCall /\ probs # NoTensor) =>
        \A m \in Capsules, b \in BatchOf(probs) :
            (\A n \in RouteNodes : ~IsNaN(RouteAt(logits, m, b, n)) \/ i = 1) =>
            \/ \E n \in RouteNodes : IsNaN(RouteAt(probs, m, b, n))
            \/ /\ QSum([n \in 1..num_route_nodes |-> RouteAt(probs, m, b, n - 1)])
                    = QInt(1)
               /\ \A n \in RouteNodes :
                     /\ QLess(QInt(0), RouteAt(probs, m, b, n))
                     /\ QLeq(RouteAt(probs, m, b, n), QInt(1))
                     /\ (num_route_nodes >= 2 => QLess(RouteAt(probs, m, b, n), QInt(1)))

\* squash of the uniformly weighted sum of the votes
UniformOutput(votes) ==
    squash(Tensor(<<votes.shape[1], votes.shape[2], 1, 1, votes.shape[5]>>,
                  LAMBDA idx :
                      QDiv(QSum([n \in 1..votes.shape[3] |->
                                   At(votes, <<idx[1], idx[2], n - 1, 0, idx[5]>>)]),
                           QInt(votes.shape[3]))),
           -1)

AboutToReturn == pc = "loop" /\ i = num_iterations

\* C5: with T = 1 every forward call returns squash of the uniformly weighted
\* sum of the votes, whatever calls and parameter updates came before.
C5_SingleIterationIsUniform ==
    (AboutToReturn /\ num_iterations = 1) => outputs = UniformOutput(priors)

\* the same while the stored logits are the zeros of the constructor
SingleIterationUniformFromZeroLogits ==
    (AboutToReturn /\ num_iterations = 1
        /\ route_logits = LogitTensor(0, num_route_nodes))
    => outputs = UniformOutput(priors)

AgreementAt(m, b, n) ==
    QSum([d \in 1..priors.shape[5] |->
            QMul(At(priors, <<m, b, n, 0, d - 1>>), At(outputs', <<m, b, 0, 0, d - 1>>))])

\* C9: iterations run in order; after each of the iterations 1..T-1, and not
\* after iteration T, the agreement of every vote with the new output is added
\* to the previous logits; the call returns the output of iteration T, which is
\* computed from the logits accumulated over the T-1 updates.
C9_RoutingIterations ==
    [][/\ (pc = "loop" /\ pc' = "loop") =>
              /\ i' = i + 1
              /\ i < num_iterations
              /\ outputs' = Outputs(Probs(logits), priors)
              /\ IF i + 1 < num_iterations
                 THEN /\ n_updates' = n_updates + 1
                      /\ \A m \in Capsules, b \in BatchOf(priors), n \in RouteNodes :
                            RouteAt(logits', m, b, n)
                              = QAdd(RouteAt(logits, m, b, n), AgreementAt(m, b, n))
                 ELSE /\ logits' = logits
                      /\ n_updates' = n_updates
       /\ (pc = "loop" /\ pc' = "idle") =>
              /\ i = num_iterations
              /\ n_updates = num_iterations - 1
              /\ ret' = outputs
              /\ outputs = Outputs(Probs(logits), priors)]_vars

\* a call with three iterations is about to return after two updates that
\* moved the logits away from the stored ones, with a defined output
C9_Witness ==
    /\ AboutToReturn /\ num_iterations = 3 /\ n_updates = 2
    /\ \A k \in 1..Len(outputs.data) : ~IsNaN(outputs.data[k])
    /\ logits # route_logits
    /\ \E k \in 1..Len(route_logits.data) : route_logits.data[k] # QInt(0)

\* ------------------------------------------------------------- squash calls

IsSquare(n) == \E r \in 0..n : r * r = n

\* one vector of integers whose norm is rational, as a [1, d] tensor
SquashInputs ==
    UNION { { [shape |-> <<1, d>>, data |-> [k \in 1..d |-> QInt(v[k])]] :
                v \in { u \in [1..d -> -MaxCoord..MaxCoord] :
                          IsSquare(QSum([k \in 1..d |-> QInt(u[k] * u[k])])[1]) } } :
            d \in 1..MaxDim }

InitLayerIdle ==
    /\ num_route_nodes = 1 /\ num_iterations = 1
    /\ route_logits = NoTensor /\ route_weights = NoTensor
    /\ pc = "idle"
    /\ x = NoTensor /\ priors = NoTensor /\ logits = NoTensor
    /\ probs = NoTensor /\ outputs = NoTensor /\ ret = NoTensor
    /\ i = 0 /\ n_updates = 0

\* the caller holds a vector
InitSquash ==
    /\ sq_in \in SquashInputs /\ sq_out = NoTensor
    /\ InitLayerIdle /\ InitNetIdle /\ InitLossIdle

\* self.squash(tensor)
CallSquash ==
    /\ sq_out = NoTensor
    /\ sq_out' = squash(sq_in, -1)
    /\ UNCHANGED <<sq_in, layerVars, netVars, lossVars>>

NextSquash == CallSquash

SpecSquash == InitSquash /\ [][NextSquash]_vars

SquashCalled == sq_out # NoTensor

NormSq(t) == QSum([k \in 1..Len(t.data) |-> QMul(t.data[k], t.data[k])])

IsZeroVector(t) == \A k \in 1..Len(t.data) : t.data[k] = QInt(0)

\* C2: squash never yields an undefined value; the result has norm strictly
\* less than 1, and the zero vector is mapped to the zero vector.
C2_SquashDefinedEverywhere ==
    SquashCalled =>
        /\ \A k \in 1..Len(sq_out.data) : ~IsNaN(sq_out.data[k])
        /\ QLess(NormSq(sq_out), QInt(1))
        /\ (IsZeroVector(sq_in) => IsZeroVector(sq_out))

\* squash of a non-zero vector: defined, norm in (0, 1)
SquashNonZeroOk ==
    (SquashCalled /\ ~IsZeroVector(sq_in)) =>
        /\ \A k \in 1..Len(sq_out.data) : ~IsNaN(sq_out.data[k])
        /\ QLess(NormSq(sq_out), QInt(1))
        /\ QLess(QInt(0), NormSq(sq_out))

\* ------------------------------------------------------------- CapsuleNet calls

\* the caller holds a [batch, 1, height, width] image batch
InitNet ==
    /\ \E batch \in 1..MaxBatch, height \in MinSide..MaxSide,
          width \in MinSide..MaxSide, seed \in 0..MaxSeed :
          net_call = [images |-> <<batch, 1, height, width>>, seed |-> seed]
    /\ net_result = NoCall
    /\ InitLayerIdle /\ InitSquashIdle /\ InitLossIdle

\* model(data)
NetForward ==
    /\ net_result = NoCall
    /\ net_result' = CapsuleNetForward(net_call.images, net_call.seed)
    /\ UNCHANGED <<net_call, layerVars, squashVars, lossVars>>

NextNet == NetForward

SpecNet == InitNet /\ [][NextNet]_vars

NetCalled == net_result # NoCall

NetBatch == net_call.images[1]

NetOk == NetCalled /\ net_result.error = ""

\* C3: on a batch of one 28x28 image the forward call completes and returns
\* one class-activation vector of 10 entries and one reconstruction of 784.
C3_BatchOfOne ==
    (NetCalled /\ net_call.images = <<1, 1, 28, 28>>) =>
        /\ net_result.error = ""
        /\ net_result.classes.shape = <<1, 10>>
        /\ net_result.reconstructions = <<1, 784>>

\* the same call on two or more 28x28 images succeeds with these shapes
BatchOfSeveralOk ==
    (NetCalled /\ NetBatch >= 2 /\ net_call.images[3] = 28 /\ net_call.images[4] = 28) =>
        /\ net_result.error = ""
        /\ net_result.classes.shape = <<NetBatch, 10>>
        /\ net_result.reconstructions = <<NetBatch, 784>>

\* C8: a 28x28 input yields 32*6*6 = 1152 primary route nodes of dimension 8,
\* and an input whose primary-capsule output has another number of route
\* nodes makes the forward call fail in the digit capsule layer.
C8_RouteNodeCountChecked ==
    NetCalled =>
        /\ (net_call.images[3] = 28 /\ net_call.images[4] = 28) =>
              net_result.primary = <<NetBatch, 1152, 8>>
        /\ (~IsShapeError(net_result.primary) /\ net_result.primary[2] # 1152) =>
              net_result.error = "digit_capsules"

\* the routing layer by itself broadcasts an input of one route node over its
\* 1152; the primary capsules never produce one, their count is 32 * h * w
OneNodeInputBroadcasts ==
    /\ RoutingForwardShape(<<2, 1, 8>>, digit_capsules) = <<10, 2, 1, 1, 16>>
    /\ NetCalled => (IsShapeError(net_result.primary) \/ net_result.primary[2] >= 32)

\* an input of another size, with a primary output of another node count,
\* was refused
C8_Witness ==
    /\ NetCalled /\ NetBatch >= 2
    /\ ~IsShapeError(net_result.primary)
    /\ net_result.primary[2] # 1152
    /\ net_result.primary[3] = 8
    /\ net_result.error = "digit_capsules"

NumClasses == digit_capsules.num_capsules

Grid == { Q(k, GridSteps) : k \in 0..GridSteps }

\* the ideal activations of a label: 1 for the true class, 0 for the others
Ideal(label, class) == IF class = label THEN QInt(1) ELSE QInt(0)

\* one-hot labels; batch element b has label (true_class + b) mod 10
Labels(true_class, batch) ==
    Tensor(<<batch, NumClasses>>,
           LAMBDA idx : Ideal((true_class + idx[1]) % NumClasses, idx[2]))

\* the ideal activations, with the activation of class changed of batch
\* element 0 set to value
Activations(true_class, changed, value, batch) ==
    Tensor(<<batch, NumClasses>>,
           LAMBDA idx : IF idx[1] = 0 /\ idx[2] = changed THEN value
                        ELSE Ideal((true_class + idx[1]) % NumClasses, idx[2]))

Images(batch) ==
    Tensor(<<batch, 1, ImageSide, ImageSide>>,
           LAMBDA idx : QInt(Ravel(idx, <<batch, 1, ImageSide, ImageSide>>) % 2))

Reconstructions(seed, batch) ==
    Tensor(<<batch, ImageSide * ImageSide>>, LAMBDA idx : Q(seed, MaxSeed + 1))

\* the caller holds images, labels, activations and reconstructions
InitLoss ==
    /\ \E true_class \in 0..(NumClasses - 1), changed \in 0..(NumClasses - 1),
          value \in Grid, batch \in 1..MaxBatch, seed \in 0..MaxSeed :
          loss_call = [true_class |-> true_class,
                       changed |-> changed, value |-> value,
                       images |-> Images(batch),
                       labels |-> Labels(true_class, batch),
                       classes |-> Activations(true_class, changed, value, batch),
                       reconstructions |-> Reconstructions(seed, batch)]
    /\ loss_result = NoCall
    /\ InitLayerIdle /\ InitSquashIdle /\ InitNetIdle

\* capsule_loss(data, labels, classes, reconstructions)
LossForward ==
    /\ loss_result = NoCall
    /\ loss_result' = CapsuleLossForward(loss_call.images, loss_call.labels,
                                         loss_call.classes, loss_call.reconstructions)
    /\ UNCHANGED <<loss_call, layerVars, squashVars, netVars>>

NextLoss == LossForward

SpecLoss == InitLoss /\ [][NextLoss]_vars

LossCalled == loss_result # NoCall

IsIdealCall == loss_call.value = Ideal(loss_call.true_class, loss_call.changed)

ChangedTerm == At(loss_result.terms, <<0, loss_call.changed>>)

\* C6 as stated: the margin loss of the ideal activations is 0, and any other
\* value in [0,1] for one class makes that class's term strictly positive.
C6_IdealIsStrictMinimum ==
    LossCalled =>
        /\ IsIdealCall => loss_result.margin_loss = QInt(0)
        /\ ~IsIdealCall => QLess(QInt(0), ChangedTerm)

\* C6 amended: the margin loss of the ideal activations is 0; another value v
\* for one class makes that class's term strictly positive exactly when
\* v < 0.9 for the true class, v > 0.1 for another class, and leaves it 0
\* otherwise.
C6_MarginBands ==
    LossCalled =>
        /\ IsIdealCall => loss_result.margin_loss = QInt(0)
        /\ IF \/ /\ loss_call.changed = loss_call.true_class
                 /\ QLess(loss_call.value, Q(9, 10))
              \/ /\ loss_call.changed # loss_call.true_class
                 /\ QLess(Q(1, 10), loss_call.value)
           THEN QLess(QInt(0), ChangedTerm)
           ELSE ChangedTerm = QInt(0)

\* the true class's activation was lowered inside the margin and its term
\* stayed 0, and the loss was computed
C6_Witness ==
    /\ LossCalled /\ ~IsIdealCall
    /\ loss_call.changed = loss_call.true_class
    /\ QLeq(Q(9, 10), loss_call.value)
    /\ ChangedTerm = QInt(0)
    /\ loss_result.margin_loss = QInt(0)
====
